---------------------------- MODULE Spec2Model ----------------------------
(***************************************************************************)
(* A model of the mail delivery pipeline of tools-email:                   *)
(*   - the Engine (package email): outbound queue, worker pool, Start and  *)
(*     Shutdown, QueueEmail (SpecEngine, FairSpecEngine);                  *)
(*   - Engine.SendEmail, the per-recipient delivery algorithm              *)
(*     (SpecSend, FairSpecSend);                                           *)
(*   - the inbound Session of package env with its debounce map            *)
(*     (SpecInbound, SpecRcpt);                                            *)
(*   - the legacy main, env.SendEmail and HTTP ingress                     *)
(*     (SpecMain, SpecLegacySend, SpecHttp).                               *)
(* The state machines share one list of variables; each                    *)
(* specification leaves the other machines' variables untouched.           *)
(***************************************************************************)
EXTENDS Integers, Sequences, FiniteSets, TLC

(***************************************************************************)
(* Bounds of the model.                                                    *)
(***************************************************************************)
\* capacity of outgoingQueue in the model (make(chan *Email, 1024) in New)
QueueCap == 1
\* OutgoingWorkerCount in the model (runtime.NumCPU() in New)
NumWorkers == 2
\* number of QueueEmail calls made in one behaviour
MaxMsgs == 2

\* number of recipients of one Message handed to SendEmail
MaxRcpt == 2
\* number of records one MX lookup returns
MaxMX == 2
\* number of middleware functions registered with UseOutgoing
MaxMw == 2

\* number of inbound sessions that can be inside Session.Data at once
MaxSessions == 3
\* number of Session.Data calls made in one behaviour
MaxData == 3
\* the clock stops after this many ticks
MaxTime == 3
\* capacity of emailQueue in the model (make(chan Email, 1000))
LegacyCap == 2
\* number of HTTP requests handled
MaxRequests == 3

Max(a, b) == IF a >= b THEN a ELSE b

Listeners == {"http", "smtp"}
Drains == {"http", "smtp", "queue"}
Workers == 1..NumWorkers
\* the two concurrent callers of Engine.Shutdown
Callers == {"c1", "c2"}
\* in-flight HTTP requests / SMTP sessions; each belongs to one listener
Producers == {"h1", "s1"}
ListenerOf(p) == IF p = "h1" THEN "http" ELSE "smtp"
MsgIds == 1..MaxMsgs

VARIABLES
  \* ---- Engine (package email)
  outgoingQueue,   \* e.outgoingQueue: the buffered messages, oldest first
  queueClosed,     \* close(e.outgoingQueue) has run
  closeCount,      \* how many times close(e.outgoingQueue) ran
  startPc,         \* position of Engine.Start
  startRet,        \* what Start returned ("none" while it has not)
  server,          \* e.httpServer / e.smtpServer: "nil" or "set"
  listener,        \* the goroutine running ListenAndServe, per listener
  listenErr,       \* the channel listenErr (capacity 2)
  srvShutdown,     \* Shutdown has been called on the server, per listener
  shutCalls,       \* how many times Shutdown was called on the server
  wpc,             \* position of each worker goroutine
  wmsg,            \* the message a worker holds (0: none)
  activeWorkers,   \* e.activeWorkers: the wait group's counter
  activeClosing,   \* e.activeClosing (sync.Once): "fresh", "running", "done"
  spc,             \* position of each call of Engine.Shutdown
  drain,           \* the three drain goroutines of Shutdown
  wg,              \* Shutdown's local wait group counter
  drainRuns,       \* how many times the function passed to Do started
  hpc,             \* in-flight handlers: "idle" or "handling"
  nextId,          \* id of the next message handed to QueueEmail
  qlog,            \* outcome of QueueEmail per message
  sendCount,       \* how many times SendEmail was invoked per message
  sendRes,         \* result of SendEmail per message
  handled,         \* how many times HandlerError was called per message
  startedAtClose,  \* the workers already started when the queue was closed
  crashed,         \* an unrecovered panic ended the process
  \* ---- one call of Engine.SendEmail
  email,               \* the Message: [To, Attachments]
  outgoingMiddleware,  \* e.outgoingMiddleware: what each function answers
  OutgoingDKIMEnabled, \* e.OutgoingDKIMEnabled
  OutgoingTimeout,     \* e.OutgoingTimeout, in milliseconds
  sePc,                \* position in SendEmail
  mwRan,               \* how many middleware functions have run
  mwLog,                 \* history: the middleware run, in the order they ran
  rcpt,                \* index in email.To of the addressee being delivered
  envelope,            \* the built envelope of the addressee
  complete,            \* the bytes handed to smtp.SendMail
  records,             \* the sorted MX records of the addressee's host
  mxAnswer,              \* history: the records as net.LookupMX returned them
  signIn,                \* history: what each call of dkim.Sign read as its input
  attemptI,            \* the attempt loop's i
  attemptErrors,       \* number of messages collected in attemptErrors
  built,               \* history: addressees an envelope was built for
  lookups,             \* history: the hosts handed to net.LookupMX
  attempts,            \* history: every smtp.SendMail call made
  seResult,            \* what SendEmail returned ("none" while running)
  \* ---- package env: the inbound Session and the debounce map
  SMTP_DISABLE_NOREPLY,  \* the configuration variable of that name
  SMTP_FORWARD_ADDRESS,  \* the configuration variable of that name
  now,                   \* the clock, in ticks
  emailDebounce,         \* the sync.Map: sender -> expiry (NoEntry: absent)
  sweepTimer,            \* the timer of init's goroutine: "armed", "fired"
  emailQueue,            \* the channel emailQueue, oldest first
  dpc,                   \* position of each session inside Session.Data
  dmsg,                  \* the message of each session's current or last Data call
  nData,                 \* number of Data calls begun
  replyLog,              \* history: auto-replies accepted by emailQueue
  suppressLog,           \* history: triggers answered by the debounce entry
  dataRet,               \* what each session's last Data call returned
  overlapped,            \* history: two Data calls ran at the same time
  SMTP_ADDRESS_DMARC,    \* configuration: the three inbox addresses
  SMTP_ADDRESS_NOREPLY,
  SMTP_ADDRESS_FORWARD,
  rcptTo,                \* toAddress of the most recent Session.Rcpt call
  rcptRet,               \* what that call returned
  \* ---- the legacy main (src/main.go) ----
  mainPc,                \* position of main
  stopCtx,               \* stopCtx has been cancelled
  stopWg,                \* counter of stopWg
  svc,                   \* each Startup function and its drain goroutine
  timeoutCtx,            \* the one-minute context: "none", "armed", "expired"
  watchdog,              \* the goroutine that waits for timeout.Done()
  exitStatus,            \* "running", "0" or "fatal"
  drainedAtDeadline,     \* history: every drain had finished when the deadline expired
  \* ---- the legacy env.SendEmail (src/unnamed/part_002) ----
  lsTo,                  \* e.ToAddress
  lsPc,                  \* position inside SendEmail
  lsEnvelope,            \* the buffer envelope (the signed message)
  lsHost,                \* host, as url.Parse gave it
  lsLookups,             \* history: the hosts handed to net.LookupMX
  lsRecords,             \* mxRecords after the sort and the cap
  lsI,                   \* position of the loop over mxRecords
  lsAttempts,            \* history: every smtp.SendMail call made
  lsResult,              \* what SendEmail returned ("none" while running)
  \* ---- the legacy HTTP ingress (src/main.go) ----
  httpLog                \* history: every request handled, with its answer

engVars == <<outgoingQueue, queueClosed, closeCount, startPc, startRet, server,
             listener, listenErr, srvShutdown, shutCalls, wpc, wmsg,
             activeWorkers, activeClosing, spc, drain, wg, drainRuns, hpc, nextId, qlog, sendCount, sendRes, handled,
             startedAtClose, crashed>>

sendVars == <<email, outgoingMiddleware, OutgoingDKIMEnabled, OutgoingTimeout,
              sePc, mwRan, mwLog, rcpt, envelope, complete, records,
              mxAnswer, signIn, attemptI, attemptErrors, built, lookups, attempts, seResult>>

inVars == <<SMTP_DISABLE_NOREPLY, SMTP_FORWARD_ADDRESS, now, emailDebounce,
            sweepTimer, emailQueue, dpc, dmsg, nData, replyLog, suppressLog,
            dataRet, overlapped>>

rcptVars == <<SMTP_ADDRESS_DMARC, SMTP_ADDRESS_NOREPLY, SMTP_ADDRESS_FORWARD,
              rcptTo, rcptRet>>

mainVars == <<mainPc, stopCtx, stopWg, svc, timeoutCtx, watchdog, exitStatus,
              drainedAtDeadline>>

legVars == <<lsTo, lsPc, lsEnvelope, lsHost, lsLookups, lsRecords, lsI,
             lsAttempts, lsResult>>

httpVars == <<httpLog>>

vars == <<engVars, sendVars, inVars, rcptVars, mainVars, legVars, httpVars>>

\* what each machine leaves alone
notEngine == <<sendVars, inVars, rcptVars, mainVars, legVars, httpVars>>
notSend == <<engVars, inVars, rcptVars, mainVars, legVars, httpVars>>
notInbound == <<engVars, sendVars, rcptVars, mainVars, legVars, httpVars>>
notRcpt == <<engVars, sendVars, inVars, mainVars, legVars, httpVars>>
notMain == <<engVars, sendVars, inVars, rcptVars, legVars, httpVars>>
notLegacy == <<engVars, sendVars, inVars, rcptVars, mainVars, httpVars>>
notHttp == <<engVars, sendVars, rcptVars, mainVars, legVars>>

(***************************************************************************)
(* Engine: New                                                             *)
(***************************************************************************)
InitEngine ==
  /\ outgoingQueue = <<>>
  /\ queueClosed = FALSE
  /\ closeCount = 0
  /\ startPc = "new"
  /\ startRet = "none"
  /\ server = [l \in Listeners |-> "nil"]
  /\ listener = [l \in Listeners |-> "off"]
  /\ listenErr = <<>>
  /\ srvShutdown = [l \in Listeners |-> FALSE]
  /\ shutCalls = [l \in Listeners |-> 0]
  /\ wpc = [w \in Workers |-> "off"]
  /\ wmsg = [w \in Workers |-> 0]
  /\ activeWorkers = 0
  /\ activeClosing = "fresh"
  /\ spc = [c \in Callers |-> "idle"]
  /\ drain = [d \in Drains |-> "none"]
  /\ wg = 0
  /\ drainRuns = 0
  /\ hpc = [p \in Producers |-> "idle"]
  /\ nextId = 1
  /\ qlog = [m \in MsgIds |-> "none"]
  /\ sendCount = [m \in MsgIds |-> 0]
  /\ sendRes = [m \in MsgIds |-> "none"]
  /\ handled = [m \in MsgIds |-> 0]
  /\ startedAtClose = {}
  /\ crashed = FALSE

(***************************************************************************)
(* Engine.Start                                                            *)
(***************************************************************************)
\* lines 55-69: the HTTP server is built, its listener goroutine is started
\* and e.httpServer is assigned
StartHTTP ==
  /\ ~crashed
  /\ startPc = "new"
  /\ startPc' = "httpSet"
  /\ listener' = [listener EXCEPT !["http"] = "run"]
  /\ server' = [server EXCEPT !["http"] = "set"]
  /\ UNCHANGED notEngine
  /\ UNCHANGED <<outgoingQueue, queueClosed, closeCount, startRet, listenErr,
                 srvShutdown, shutCalls, wpc, wmsg, activeWorkers,
                 activeClosing, spc, drain, wg, drainRuns, hpc,
                 nextId, qlog, sendCount, sendRes, handled,
                 startedAtClose, crashed>>

\* lines 72-83: the same for the SMTP server and e.smtpServer
StartSMTP ==
  /\ ~crashed
  /\ startPc = "httpSet"
  /\ startPc' = "smtpSet"
  /\ listener' = [listener EXCEPT !["smtp"] = "run"]
  /\ server' = [server EXCEPT !["smtp"] = "set"]
  /\ UNCHANGED notEngine
  /\ UNCHANGED <<outgoingQueue, queueClosed, closeCount, startRet, listenErr,
                 srvShutdown, shutCalls, wpc, wmsg, activeWorkers,
                 activeClosing, spc, drain, wg, drainRuns, hpc,
                 nextId, qlog, sendCount, sendRes, handled,
                 startedAtClose, crashed>>

\* lines 86-96, one iteration: e.activeWorkers.Add(1) and the go statement
StartWorker(w) ==
  /\ ~crashed
  /\ startPc = "smtpSet"
  /\ wpc[w] = "off"
  /\ \A v \in Workers : v < w => wpc[v] # "off"
  /\ activeWorkers' = activeWorkers + 1
  /\ wpc' = [wpc EXCEPT ![w] = "idle"]
  /\ startPc' = IF w = NumWorkers THEN "wait" ELSE startPc
  /\ UNCHANGED notEngine
  /\ UNCHANGED <<outgoingQueue, queueClosed, closeCount, startRet, server,
                 listener, listenErr, srvShutdown, shutCalls, wmsg,
                 activeClosing, spc, drain, wg, drainRuns, hpc,
                 nextId, qlog, sendCount, sendRes, handled,
                 startedAtClose, crashed>>

\* the error Start returns for a value received from listenErr (line 98)
StartResult(err) == IF err = "ErrServerClosed" THEN "nil" ELSE err

\* lines 98-101: Start blocks on listenErr and returns on the first value
StartReturn ==
  /\ ~crashed
  /\ startPc = "wait"
  /\ listenErr # <<>>
  /\ startRet' = StartResult(Head(listenErr)[2])
  /\ listenErr' = Tail(listenErr)
  /\ startPc' = "returned"
  /\ UNCHANGED notEngine
  /\ UNCHANGED <<outgoingQueue, queueClosed, closeCount, server, listener,
                 srvShutdown, shutCalls, wpc, wmsg, activeWorkers,
                 activeClosing, spc, drain, wg, drainRuns, hpc,
                 nextId, qlog, sendCount, sendRes, handled,
                 startedAtClose, crashed>>

\* lines 62-68, 80-82: ListenAndServe binds its address and serves
ListenServe(l) ==
  /\ ~crashed
  /\ listener[l] = "run"
  /\ ~srvShutdown[l]
  /\ listener' = [listener EXCEPT ![l] = "serving"]
  /\ UNCHANGED notEngine
  /\ UNCHANGED <<outgoingQueue, queueClosed, closeCount, startPc, startRet,
                 server, listenErr, srvShutdown, shutCalls, wpc, wmsg,
                 activeWorkers, activeClosing, spc, drain, wg, drainRuns, hpc,
                 nextId, qlog, sendCount, sendRes, handled,
                 startedAtClose, crashed>>

\* lines 62-68, 80-82: ListenAndServe fails to start and the goroutine sends
\* the error to listenErr
ListenFail(l) ==
  /\ ~crashed
  /\ listener[l] = "run"
  /\ ~srvShutdown[l]
  /\ listener' = [listener EXCEPT ![l] = "failed"]
  /\ listenErr' = Append(listenErr, <<l, "listen error">>)
  /\ UNCHANGED notEngine
  /\ UNCHANGED <<outgoingQueue, queueClosed, closeCount, startPc, startRet,
                 server, srvShutdown, shutCalls, wpc, wmsg, activeWorkers,
                 activeClosing, spc, drain, wg, drainRuns, hpc,
                 nextId, qlog, sendCount, sendRes, handled,
                 startedAtClose, crashed>>

\* lines 62-68, 80-82: after Shutdown, ListenAndServe returns ErrServerClosed
ListenClosed(l) ==
  /\ ~crashed
  /\ listener[l] \in {"run", "serving"}
  /\ srvShutdown[l]
  /\ listener' = [listener EXCEPT ![l] = "closed"]
  /\ listenErr' = Append(listenErr, <<l, "ErrServerClosed">>)
  /\ UNCHANGED notEngine
  /\ UNCHANGED <<outgoingQueue, queueClosed, closeCount, startPc, startRet,
                 server, srvShutdown, shutCalls, wpc, wmsg, activeWorkers,
                 activeClosing, spc, drain, wg, drainRuns, hpc,
                 nextId, qlog, sendCount, sendRes, handled,
                 startedAtClose, crashed>>

(***************************************************************************)
(* Engine.QueueEmail, called by in-flight HTTP requests and SMTP sessions  *)
(***************************************************************************)
\* a listener that serves accepts a request or a session
Accept(p) ==
  /\ ~crashed
  /\ hpc[p] = "idle"
  /\ listener[ListenerOf(p)] = "serving"
  /\ ~srvShutdown[ListenerOf(p)]
  /\ nextId + Cardinality({r \in Producers : hpc[r] = "handling"}) <= MaxMsgs
  /\ hpc' = [hpc EXCEPT ![p] = "handling"]
  /\ UNCHANGED notEngine
  /\ UNCHANGED <<outgoingQueue, queueClosed, closeCount, startPc, startRet,
                 server, listener, listenErr, srvShutdown, shutCalls, wpc,
                 wmsg, activeWorkers, activeClosing, spc, drain, wg,
                 drainRuns, nextId, qlog, sendCount, sendRes,
                 handled, startedAtClose, crashed>>

\* select { case e.outgoingQueue <- email: return true; default: return false }
\* A send on a closed channel panics, whether or not the buffer is full.
QueueEmailResult(q, closed) ==
  IF closed THEN "panic"
  ELSE IF Len(q) >= QueueCap THEN "false"
  ELSE "true"

\* the queue after QueueEmail(m)
QueueEmailQueue(q, closed, m) ==
  IF QueueEmailResult(q, closed) = "true" THEN Append(q, m) ELSE q

\* the handler calls e.QueueEmail and finishes; a panic of the handler is
\* recovered by the serving library and ends the request
QueueEmail(p) ==
  /\ ~crashed
  /\ hpc[p] = "handling"
  /\ nextId <= MaxMsgs
  /\ qlog' = [qlog EXCEPT ![nextId] = QueueEmailResult(outgoingQueue, queueClosed)]
  /\ outgoingQueue' = QueueEmailQueue(outgoingQueue, queueClosed, nextId)
  /\ nextId' = nextId + 1
  /\ hpc' = [hpc EXCEPT ![p] = "idle"]
  /\ UNCHANGED notEngine
  /\ UNCHANGED <<queueClosed, closeCount, startPc, startRet, server, listener,
                 listenErr, srvShutdown, shutCalls, wpc, wmsg, activeWorkers,
                 activeClosing, spc, drain, wg, drainRuns, sendCount,
                 sendRes, handled, startedAtClose, crashed>>

(***************************************************************************)
(* The worker goroutines of Engine.Start                                   *)
(***************************************************************************)
\* the queue after a receive
Dequeue(q) == Tail(q)

\* for email := range e.outgoingQueue: a message is received and handed to
\* e.SendEmail
WorkerRecv(w) ==
  /\ ~crashed
  /\ wpc[w] = "idle"
  /\ outgoingQueue # <<>>
  /\ wmsg' = [wmsg EXCEPT ![w] = Head(outgoingQueue)]
  /\ outgoingQueue' = Dequeue(outgoingQueue)
  /\ sendCount' = [sendCount EXCEPT ![Head(outgoingQueue)] = @ + 1]
  /\ wpc' = [wpc EXCEPT ![w] = "sending"]
  /\ UNCHANGED notEngine
  /\ UNCHANGED <<queueClosed, closeCount, startPc, startRet, server, listener,
                 listenErr, srvShutdown, shutCalls, activeWorkers,
                 activeClosing, spc, drain, wg, drainRuns, hpc,
                 nextId, qlog, sendRes, handled, startedAtClose,
                 crashed>>

\* what e.SendEmail can do with a message: return nil, return an error, or
\* panic (records[i%len(records)] with an empty record list)
SendEmailOutcomes == {"ok", "err", "panic"}

HandlerNever(r) == 0

\* if err := e.SendEmail(email); err != nil { e.HandlerError(err) }: the
\* number of HandlerError calls the outcome r leads to
HandlerCalls(r) == IF r = "err" THEN 1 ELSE 0

\* e.SendEmail returns; an error goes to e.HandlerError; a panic in the
\* worker goroutine is not recovered and ends the process
WorkerSend(w) ==
  /\ ~crashed
  /\ wpc[w] = "sending"
  /\ \E r \in SendEmailOutcomes :
       /\ sendRes' = [sendRes EXCEPT ![wmsg[w]] = r]
       /\ handled' = [handled EXCEPT ![wmsg[w]] = @ + HandlerCalls(r)]
       /\ crashed' = (r = "panic")
       /\ wpc' = [wpc EXCEPT ![w] = IF r = "panic" THEN "sending" ELSE "idle"]
       /\ wmsg' = [wmsg EXCEPT ![w] = IF r = "panic" THEN @ ELSE 0]
  /\ UNCHANGED notEngine
  /\ UNCHANGED <<outgoingQueue, queueClosed, closeCount, startPc, startRet,
                 server, listener, listenErr, srvShutdown, shutCalls,
                 activeWorkers, activeClosing, spc, drain, wg, drainRuns,
                 hpc, nextId, qlog, sendCount, startedAtClose>>

\* the range loop ends when the queue is closed and empty; the deferred
\* e.activeWorkers.Done() runs
WorkerExit(w) ==
  /\ ~crashed
  /\ wpc[w] = "idle"
  /\ outgoingQueue = <<>>
  /\ queueClosed
  /\ wpc' = [wpc EXCEPT ![w] = "done"]
  /\ activeWorkers' = activeWorkers - 1
  /\ UNCHANGED notEngine
  /\ UNCHANGED <<outgoingQueue, queueClosed, closeCount, startPc, startRet,
                 server, listener, listenErr, srvShutdown, shutCalls, wmsg,
                 activeClosing, spc, drain, wg, drainRuns, hpc,
                 nextId, qlog, sendCount, sendRes, handled,
                 startedAtClose, crashed>>

(***************************************************************************)
(* Engine.Shutdown                                                         *)
(***************************************************************************)
\* the call of Shutdown has returned
Returned(c) == spc[c] \in {"returned", "released", "skipped"}

OnceAlways == TRUE

\* sync.Once: the function passed to Do runs for the first caller only
OnceFirst == activeClosing = "fresh"

\* e.activeClosing.Do(...): the first caller runs the function, which does
\* wg.Add(3) and starts the three drain goroutines (lines 109-130); any other
\* caller blocks inside Do until the first caller's function has returned
\* ("waiting"), or returns at once when it already has ("skipped")
ShutdownCall(c) ==
  /\ ~crashed
  /\ spc[c] = "idle"
  /\ IF OnceFirst
       THEN /\ activeClosing' = "running"
            /\ spc' = [spc EXCEPT ![c] = "runner"]
            /\ wg' = 3
            /\ drain' = [d \in Drains |-> "spawned"]
            /\ drainRuns' = drainRuns + 1
       ELSE /\ spc' = [spc EXCEPT ![c] = IF activeClosing = "running"
                                             THEN "waiting" ELSE "skipped"]
            /\ UNCHANGED <<activeClosing, wg, drain, drainRuns>>
  /\ UNCHANGED notEngine
  /\ UNCHANGED <<outgoingQueue, queueClosed, closeCount, startPc, startRet,
                 server, listener, listenErr, srvShutdown, shutCalls, wpc,
                 wmsg, activeWorkers, hpc, nextId, qlog, sendCount, sendRes, handled, startedAtClose, crashed>>

\* lines 111-124: e.httpServer.Shutdown(ctx) / e.smtpServer.Shutdown(ctx) is
\* called: the listener stops accepting; a server that Start has not assigned
\* yet is a nil pointer and the call panics
DrainServerStart(l) ==
  /\ ~crashed
  /\ drain[l] = "spawned"
  /\ IF server[l] = "nil"
       THEN /\ crashed' = TRUE
            /\ UNCHANGED <<srvShutdown, shutCalls, drain>>
       ELSE /\ srvShutdown' = [srvShutdown EXCEPT ![l] = TRUE]
            /\ shutCalls' = [shutCalls EXCEPT ![l] = @ + 1]
            /\ drain' = [drain EXCEPT ![l] = "draining"]
            /\ UNCHANGED crashed
  /\ UNCHANGED notEngine
  /\ UNCHANGED <<outgoingQueue, queueClosed, closeCount, startPc, startRet,
                 server, listener, listenErr, wpc, wmsg, activeWorkers,
                 activeClosing, spc, wg, drainRuns, hpc, nextId,
                 qlog, sendCount, sendRes, handled, startedAtClose>>

\* the server's Shutdown returns: every in-flight handler has finished, or
\* the deadline of the context handed to Shutdown has passed (expired); the
\* deferred wg.Done() runs
DrainServerReturn(l) ==
  /\ ~crashed
  /\ drain[l] = "draining"
  /\ \E expired \in BOOLEAN :
       expired \/ \A p \in Producers : ListenerOf(p) = l => hpc[p] = "idle"
  /\ drain' = [drain EXCEPT ![l] = "done"]
  /\ wg' = wg - 1
  /\ UNCHANGED notEngine
  /\ UNCHANGED <<outgoingQueue, queueClosed, closeCount, startPc, startRet,
                 server, listener, listenErr, srvShutdown, shutCalls, wpc,
                 wmsg, activeWorkers, activeClosing, spc, drainRuns, hpc, nextId, qlog, sendCount, sendRes, handled,
                 startedAtClose, crashed>>

\* line 128: close(e.outgoingQueue); closing a closed channel panics
DrainQueueClose ==
  /\ ~crashed
  /\ drain["queue"] = "spawned"
  /\ IF queueClosed
       THEN /\ crashed' = TRUE
            /\ UNCHANGED <<queueClosed, drain, startedAtClose>>
       ELSE /\ queueClosed' = TRUE
            /\ drain' = [drain EXCEPT !["queue"] = "draining"]
            /\ startedAtClose' = {w \in Workers : wpc[w] # "off"}
            /\ UNCHANGED crashed
  /\ closeCount' = closeCount + 1
  /\ UNCHANGED notEngine
  /\ UNCHANGED <<outgoingQueue, startPc, startRet, server, listener,
                 listenErr, srvShutdown, shutCalls, wpc, wmsg, activeWorkers,
                 activeClosing, spc, wg, drainRuns, hpc, nextId,
                 qlog, sendCount, sendRes, handled>>

WorkersWaitSkipped == TRUE

\* e.activeWorkers.Wait() returns once the counter is zero
WorkersWaitDone == activeWorkers = 0

\* line 129 and the deferred wg.Done() of the queue drain
DrainQueueReturn ==
  /\ ~crashed
  /\ drain["queue"] = "draining"
  /\ WorkersWaitDone
  /\ drain' = [drain EXCEPT !["queue"] = "done"]
  /\ wg' = wg - 1
  /\ UNCHANGED notEngine
  /\ UNCHANGED <<outgoingQueue, queueClosed, closeCount, startPc, startRet,
                 server, listener, listenErr, srvShutdown, shutCalls, wpc,
                 wmsg, activeWorkers, activeClosing, spc, drainRuns, hpc, nextId, qlog, sendCount, sendRes, handled,
                 startedAtClose, crashed>>

\* wg.Wait() (line 131) returns once the three drains have called Done
WgWaitDone == wg = 0

\* the function passed to Do returns, Do returns and so does Shutdown
ShutdownReturn(c) ==
  /\ ~crashed
  /\ spc[c] = "runner"
  /\ WgWaitDone
  /\ activeClosing' = "done"
  /\ spc' = [spc EXCEPT ![c] = "returned"]
  /\ UNCHANGED notEngine
  /\ UNCHANGED <<outgoingQueue, queueClosed, closeCount, startPc, startRet,
                 server, listener, listenErr, srvShutdown, shutCalls, wpc,
                 wmsg, activeWorkers, drain, wg, drainRuns, hpc,
                 nextId, qlog, sendCount, sendRes, handled,
                 startedAtClose, crashed>>

\* a caller blocked in Do returns once the first caller's function is done
ShutdownWaiterReturn(c) ==
  /\ ~crashed
  /\ spc[c] = "waiting"
  /\ activeClosing = "done"
  /\ spc' = [spc EXCEPT ![c] = "released"]
  /\ UNCHANGED notEngine
  /\ UNCHANGED <<outgoingQueue, queueClosed, closeCount, startPc, startRet,
                 server, listener, listenErr, srvShutdown, shutCalls, wpc,
                 wmsg, activeWorkers, activeClosing, drain, wg, drainRuns,
                 hpc, nextId, qlog, sendCount, sendRes,
                 handled, startedAtClose, crashed>>

NextEngine ==
  \/ StartHTTP
  \/ StartSMTP
  \/ \E w \in Workers : StartWorker(w)
  \/ StartReturn
  \/ \E l \in Listeners : ListenServe(l)
  \/ \E l \in Listeners : ListenFail(l)
  \/ \E l \in Listeners : ListenClosed(l)
  \/ \E p \in Producers : Accept(p)
  \/ \E p \in Producers : QueueEmail(p)
  \/ \E w \in Workers : WorkerRecv(w)
  \/ \E w \in Workers : WorkerSend(w)
  \/ \E w \in Workers : WorkerExit(w)
  \/ \E c \in Callers : ShutdownCall(c)
  \/ \E l \in Listeners : DrainServerStart(l)
  \/ \E l \in Listeners : DrainServerReturn(l)
  \/ DrainQueueClose
  \/ DrainQueueReturn
  \/ \E c \in Callers : ShutdownReturn(c)
  \/ \E c \in Callers : ShutdownWaiterReturn(c)


(***************************************************************************)
(* Engine.SendEmail (src/email/engine_setup.go, lines 110-217)             *)
(***************************************************************************)
\* addresses are sequences of characters
Addresses == {<<"u", "@", "d">>, <<"v", "@", "e">>, <<"u", "d">>, <<"u", "@">>}
AttachmentLists == {<<>>, <<[Inline |-> TRUE]>>}
MXHosts == {"mx1", "mx2"}
MXPrefs == {10, 20}
MXRecords == [Host : MXHosts, Pref : MXPrefs]
\* e.OutgoingTimeout in milliseconds; New sets 30 s
OutgoingTimeouts == {0, 9999, 10000, 25000, 30000}
\* smtp.SendMail's own timeout of 10 s, in milliseconds (the divisor 10 of
\* line 198)
PerAttemptMs == 10000

SeqsUpTo(S, n) == UNION {[1..k -> S] : k \in 0..n}

\* the index of the first "@" of an address, 0 when it has none
FirstAt(a) ==
  IF \E k \in 1..Len(a) : a[k] = "@"
    THEN CHOOSE k \in 1..Len(a) : a[k] = "@" /\ \A j \in 1..(k - 1) : a[j] # "@"
    ELSE 0

\* strings.SplitN(address, "@", 2)
SplitN2(a) ==
  IF FirstAt(a) = 0 THEN <<a>>
  ELSE <<SubSeq(a, 1, FirstAt(a) - 1), SubSeq(a, FirstAt(a) + 1, Len(a))>>

HostUnchecked(a) == SplitN2(a)[Len(SplitN2(a))]

\* extractHostFromAddress: the host, or "error"
extractHostFromAddress(a) ==
  IF Len(SplitN2(a)) # 2 \/ SplitN2(a)[2] = <<>> THEN "error" ELSE SplitN2(a)[2]

\* int(x) of a quotient: truncation toward zero
TruncDiv(a, b) == IF a >= 0 THEN a \div b ELSE -((-a) \div b)

\* attemptTotal := max(int(e.OutgoingTimeout.Seconds()/10), 1)
AttemptTotal(timeoutMs) == Max(TruncDiv(timeoutMs, PerAttemptMs), 1)

CandidateIndexClamped(i, n) == IF i + 1 > n THEN n ELSE i + 1

\* records[i%len(records)], as a 1-based index
CandidateIndex(i, n) == (i % n) + 1

\* sort.Slice(records, less by Pref): some rearrangement of the lookup's
\* records in ascending Pref; sort.Slice does not promise to keep the order
\* of records with equal Pref
IsSortedByPref(out, in) ==
  /\ Len(out) = Len(in)
  /\ \E f \in [1..Len(in) -> 1..Len(in)] :
       /\ \A a, b \in 1..Len(in) : a # b => f[a] # f[b]
       /\ \A a \in 1..Len(in) : out[a] = in[f[a]]
  /\ \A a \in 1..(Len(out) - 1) : out[a].Pref <= out[a + 1].Pref

\* the envelope built for one addressee (lines 130-158)
BuildEnvelope(e, r) == [to |-> e.To[r], parts |-> e.Attachments]

\* dkim.Sign(w, r, options) reads the message from r up to the end of its
\* header; an input without a header (an empty one) makes it return an error
DkimReadable(r) == r # <<>>

\* what dkim.Sign writes to w: the signature header followed by the message
\* it read from r
DkimSign(r) == [dkim |-> "signature", body |-> r]

\* the handlers a program registers: mw(email) returns proceed
Handlers == [name : {"m1", "m2"}, proceed : BOOLEAN]

AlwaysProceeds(mw) == TRUE

\* proceed, err := mw(email)
MiddlewareProceeds(mw) == mw.proceed

SigningSkipped == FALSE

\* if e.OutgoingDKIMEnabled (line 162)
SigningEnabled == OutgoingDKIMEnabled

ReturnsNever == FALSE

\* a successful smtp.SendMail returns from SendEmail (line 212)
ReturnsOnSuccess == TRUE

InitSend ==
  /\ email \in [To : SeqsUpTo(Addresses, MaxRcpt), Attachments : AttachmentLists]
  /\ outgoingMiddleware = <<>>
  /\ OutgoingDKIMEnabled \in BOOLEAN
  /\ OutgoingTimeout \in OutgoingTimeouts
  /\ sePc = "start"
  /\ mwRan = 0
  /\ mwLog = <<>>
  /\ rcpt = 0
  /\ envelope = <<>>
  /\ complete = <<>>
  /\ records = <<>>
  /\ mxAnswer = <<>>
  /\ signIn = <<>>
  /\ attemptI = 0
  /\ attemptErrors = 0
  /\ built = {}
  /\ lookups = <<>>
  /\ attempts = <<>>
  /\ seResult = "none"

\* the state of the SendEmail machine in the specifications that do not run it
SendIdle ==
  /\ email = [To |-> <<>>, Attachments |-> <<>>]
  /\ outgoingMiddleware = <<>>
  /\ OutgoingDKIMEnabled = FALSE
  /\ OutgoingTimeout = 0
  /\ sePc = "idle"
  /\ mwRan = 0
  /\ mwLog = <<>>
  /\ rcpt = 0
  /\ envelope = <<>>
  /\ complete = <<>>
  /\ records = <<>>
  /\ mxAnswer = <<>>
  /\ signIn = <<>>
  /\ attemptI = 0
  /\ attemptErrors = 0
  /\ built = {}
  /\ lookups = <<>>
  /\ attempts = <<>>
  /\ seResult = "none"

\* SendEmail returns err
SendReturn(err) ==
  /\ seResult' = err
  /\ sePc' = "returned"

\* UseOutgoing, called while the engine is set up: the handler is appended
UseOutgoing(handler) ==
  /\ sePc = "start"
  /\ Len(outgoingMiddleware) < MaxMw
  /\ outgoingMiddleware' = Append(outgoingMiddleware, handler)
  /\ UNCHANGED <<email, OutgoingDKIMEnabled, OutgoingTimeout, sePc, mwRan,
                 mwLog, rcpt, envelope, complete, records, mxAnswer, signIn, attemptI,
                 attemptErrors, built, lookups, attempts, seResult>>
  /\ UNCHANGED notSend

\* lines 113-115: the sanity check
SendBegin ==
  /\ sePc = "start"
  /\ IF Len(email.To) = 0
       THEN /\ SendReturn("no recipients")
            /\ UNCHANGED rcpt
       ELSE /\ sePc' = IF Len(outgoingMiddleware) = 0 THEN "build" ELSE "mw"
            /\ rcpt' = IF Len(outgoingMiddleware) = 0 THEN 1 ELSE rcpt
            /\ UNCHANGED seResult
  /\ UNCHANGED <<email, outgoingMiddleware, OutgoingDKIMEnabled,
                 OutgoingTimeout, mwRan, mwLog, envelope, complete, records, mxAnswer, signIn,
                 attemptI, attemptErrors, built, lookups, attempts>>
  /\ UNCHANGED notSend

\* lines 118-122, one iteration: the next middleware runs; the first that
\* does not say proceed makes SendEmail return
RunMiddleware ==
  /\ sePc = "mw"
  /\ mwRan < Len(outgoingMiddleware)
  /\ mwRan' = mwRan + 1
  /\ mwLog' = Append(mwLog, outgoingMiddleware[mwRan + 1])
  /\ IF ~MiddlewareProceeds(outgoingMiddleware[mwRan + 1])
       THEN /\ SendReturn("cancelled by middleware")
            /\ UNCHANGED rcpt
       ELSE /\ sePc' = IF mwRan + 1 = Len(outgoingMiddleware) THEN "build" ELSE "mw"
            /\ rcpt' = IF mwRan + 1 = Len(outgoingMiddleware) THEN 1 ELSE rcpt
            /\ UNCHANGED seResult
  /\ UNCHANGED <<email, outgoingMiddleware, OutgoingDKIMEnabled,
                 OutgoingTimeout, envelope, complete, records, mxAnswer, signIn, attemptI,
                 attemptErrors, built, lookups, attempts>>
  /\ UNCHANGED notSend

\* lines 129-158: the envelope of the addressee is built and encoded
SendBuild ==
  /\ sePc = "build"
  /\ \E ok \in BOOLEAN :
       IF ok
         THEN /\ envelope' = BuildEnvelope(email, rcpt)
              /\ built' = built \cup {rcpt}
              /\ sePc' = "sign"
              /\ UNCHANGED seResult
         ELSE /\ SendReturn("unable to build envelope")
              /\ UNCHANGED <<envelope, built>>
  /\ UNCHANGED <<email, outgoingMiddleware, OutgoingDKIMEnabled,
                 OutgoingTimeout, mwRan, mwLog, rcpt, complete, records, mxAnswer, signIn, attemptI,
                 attemptErrors, lookups, attempts>>
  /\ UNCHANGED notSend

\* lines 160-174.  With signing enabled the call is
\* dkim.Sign(&envelope, &complete, options), and the signature of the
\* function is Sign(w io.Writer, r io.Reader, options): the message is read
\* from complete, which was declared the line before and is empty, and the
\* signed message would be written to envelope, behind the envelope built.
\* With signing disabled complete is a copy of envelope.
SendSign ==
  /\ sePc = "sign"
  /\ IF SigningEnabled
       THEN /\ signIn' = Append(signIn, complete)
            /\ \E ok \in BOOLEAN :
                 IF ok /\ DkimReadable(complete)
                   THEN /\ envelope' = <<envelope, DkimSign(complete)>>
                        /\ sePc' = "resolve"
                        /\ UNCHANGED seResult
                   ELSE /\ SendReturn("unable to sign envelope")
                        /\ UNCHANGED envelope
            /\ UNCHANGED complete
       ELSE /\ complete' = envelope
            /\ sePc' = "resolve"
            /\ UNCHANGED <<seResult, envelope, signIn>>
  /\ UNCHANGED <<email, outgoingMiddleware, OutgoingDKIMEnabled,
                 OutgoingTimeout, mwRan, mwLog, rcpt, records, mxAnswer,
                 attemptI, attemptErrors, built, lookups, attempts>>
  /\ UNCHANGED notSend

\* what net.LookupMX can answer: an error, or a list of records
LookupOutcomes ==
  {<<"notfound", <<>>>>, <<"error", <<>>>>}
    \cup {<<"ok", r>> : r \in SeqsUpTo(MXRecords, MaxMX)}

\* lines 176-192: the host is extracted, its MX records are looked up and
\* sorted
SendResolve ==
  /\ sePc = "resolve"
  /\ IF extractHostFromAddress(email.To[rcpt]) = "error"
       THEN /\ SendReturn("invalid email address")
            /\ UNCHANGED <<lookups, records, mxAnswer>>
       ELSE /\ lookups' = Append(lookups, extractHostFromAddress(email.To[rcpt]))
            /\ \E o \in LookupOutcomes :
                 CASE o[1] = "notfound" ->
                        /\ SendReturn("no mx records present")
                        /\ UNCHANGED <<records, mxAnswer>>
                   [] o[1] = "error" ->
                        /\ SendReturn("mx records unresolvable")
                        /\ UNCHANGED <<records, mxAnswer>>
                   [] OTHER ->
                        /\ \E sorted \in SeqsUpTo(MXRecords, MaxMX) :
                             /\ IsSortedByPref(sorted, o[2])
                             /\ records' = sorted
                        /\ mxAnswer' = o[2]
                        /\ sePc' = "attempt"
                        /\ UNCHANGED seResult
  /\ UNCHANGED <<email, outgoingMiddleware, OutgoingDKIMEnabled,
                 OutgoingTimeout, mwRan, mwLog, rcpt, envelope, complete, signIn,
                 attemptI, attemptErrors, built, attempts>>
  /\ UNCHANGED notSend

\* lines 199-214, one iteration of the attempt loop: smtp.SendMail to
\* records[i%len(records)].  An empty record list makes i%len(records) panic.
\* Both returns (lines 212 and 214) are inside the loop over email.To: they
\* end SendEmail, whatever addressees are left.
SendAttempt ==
  /\ sePc = "attempt"
  /\ IF Len(records) = 0
       THEN /\ SendReturn("panic")
            /\ UNCHANGED <<attempts, attemptI, attemptErrors>>
       ELSE \E ok \in BOOLEAN :
              /\ attempts' = Append(attempts,
                   [rcpt |-> rcpt, i |-> attemptI,
                    host |-> records[CandidateIndex(attemptI, Len(records))].Host,
                    payload |-> complete, ok |-> ok])
              /\ IF ok /\ ReturnsOnSuccess
                   THEN /\ SendReturn("nil")
                        /\ UNCHANGED <<attemptI, attemptErrors>>
                   ELSE /\ attemptErrors' = IF ok THEN attemptErrors ELSE attemptErrors + 1
                        /\ attemptI' = attemptI + 1
                        /\ IF attemptI + 1 < AttemptTotal(OutgoingTimeout)
                             THEN UNCHANGED <<sePc, seResult>>
                             ELSE SendReturn("email delivery failed")
  /\ UNCHANGED <<email, outgoingMiddleware, OutgoingDKIMEnabled,
                 OutgoingTimeout, mwRan, mwLog, rcpt, envelope, complete, records, mxAnswer, signIn,
                 built, lookups>>
  /\ UNCHANGED notSend

NextSend ==
  \/ \E handler \in Handlers : UseOutgoing(handler)
  \/ SendBegin
  \/ RunMiddleware
  \/ SendBuild
  \/ SendSign
  \/ SendResolve
  \/ SendAttempt

(***************************************************************************)
(* Package env: the inbound Session, the debounce map and the legacy queue *)
(* (src/unnamed/part_002, src/unnamed/part_003).  Time is counted in       *)
(* ticks of half an hour from the start of the process; Session.Data is    *)
(* modelled as the method itself, one call per inbound message.            *)
(***************************************************************************)
\* time.Hour in ticks
Hour == 2

\* SMTP_USERNAME_DMARC, _NOREPLY, _FORWARD + "@" + SMTP_DOMAIN, by default
DefaultInboxes ==
  /\ SMTP_ADDRESS_DMARC = "dmarc@d"
  /\ SMTP_ADDRESS_NOREPLY = "noreply@d"
  /\ SMTP_ADDRESS_FORWARD = "support@d"

\* the addresses a user name of the configuration can give an inbox
InboxAddresses == {"dmarc@d", "noreply@d", "support@d"}
\* the recipients a peer declares with RCPT TO
RcptAddresses == InboxAddresses \cup {"other@d"}

\* Session.Rcpt: its result for toAddress
RcptResult(toAddress) ==
  IF \/ toAddress # SMTP_ADDRESS_DMARC
     \/ toAddress # SMTP_ADDRESS_NOREPLY
     \/ toAddress # SMTP_ADDRESS_FORWARD
    THEN "ErrUnknownRecipient"
    ELSE "nil"

\* one call of Session.Rcpt
Rcpt(toAddress) ==
  /\ rcptTo' = toAddress
  /\ rcptRet' = RcptResult(toAddress)
  /\ UNCHANGED <<SMTP_ADDRESS_DMARC, SMTP_ADDRESS_NOREPLY, SMTP_ADDRESS_FORWARD>>
  /\ UNCHANGED notRcpt

NextRcpt == \E toAddress \in RcptAddresses : Rcpt(toAddress)

\* Session.Rcpt under every configuration of the three inbox addresses
InitRcpt ==
  /\ SMTP_ADDRESS_DMARC \in InboxAddresses
  /\ SMTP_ADDRESS_NOREPLY \in InboxAddresses
  /\ SMTP_ADDRESS_FORWARD \in InboxAddresses
  /\ rcptTo = ""
  /\ rcptRet = "none"

Sessions == 1..MaxSessions
\* From.Address of the inbound messages
Senders == {"a@x", "b@y"}
\* the Subject header of the inbound messages, as a sequence of pieces
Subjects == {<<"hi">>}
\* what a message carries as DKIM-Signature: a signature that verifies, one
\* that does not, none at all, or a header block dkim.Verify cannot read
DkimStates == {"valid", "invalid", "absent", "unreadable"}
\* an inbound message (the raw bytes Data reads): its From, To and Subject
\* headers; parsed = enmime.ReadEnvelope and both mail.ParseAddress calls
\* succeed; dkim = the state of its signature
InboundMessages ==
  [From : Senders, To : RcptAddresses, Subject : Subjects, parsed : {TRUE},
   dkim : {"valid"}]
  \cup [From : {"a@x"}, To : {"noreply@d"}, Subject : Subjects,
        parsed : {TRUE}, dkim : DkimStates]
  \cup [From : {"a@x"}, To : {"noreply@d"}, Subject : Subjects,
        parsed : {FALSE}, dkim : {"absent"}]
NoMessage ==
  [From |-> "", To |-> "", Subject |-> <<>>, parsed |-> FALSE,
   dkim |-> "absent", at |-> 0]

\* emailDebounce.Load(key): ok
DebounceLoad(key) == \E e \in emailDebounce : e.key = key
\* the value Load returns when ok
DebounceValue(key) == (CHOOSE e \in emailDebounce : e.key = key).sent
\* emailDebounce.Store(key, sent)
DebounceStore(key, sent) ==
  {e \in emailDebounce : e.key # key} \cup {[key |-> key, sent |-> sent]}

\* data, the bytes io.ReadAll returned for the message
RawBytes(m) == [h \in {"From", "To", "Subject", "parsed", "dkim"} |-> m[h]]

\* the auto-reply of the no-reply branch
NoreplyEmail(m) ==
  [FromAddress |-> SMTP_ADDRESS_NOREPLY, ToAddress |-> m.From,
   Subject |-> <<"Need Help?">>,
   Attachments |-> <<[ContentType |-> "image/png", Data |-> "robot.png",
                      Inline |-> TRUE]>>]
\* the forward of the catch-all branch
ForwardEmail(m) ==
  [FromAddress |-> "catchall@d", ToAddress |-> SMTP_FORWARD_ADDRESS,
   Subject |-> <<"Fwd: ">> \o m.Subject,
   Attachments |-> <<[ContentType |-> "message/rfc822", Data |-> RawBytes(m),
                      Inline |-> FALSE]>>]

InitInbound ==
  /\ SMTP_DISABLE_NOREPLY \in {"", "1"}
  /\ SMTP_FORWARD_ADDRESS \in {"", "fwd@z"}
  /\ now = 0
  /\ emailDebounce = {}
  /\ sweepTimer = "armed"
  /\ emailQueue = <<>>
  /\ dpc = [s \in Sessions |-> "idle"]
  /\ dmsg = [s \in Sessions |-> NoMessage]
  /\ nData = 0
  /\ replyLog = <<>>
  /\ suppressLog = {}
  /\ dataRet = [s \in Sessions |-> "none"]
  /\ overlapped = FALSE
  /\ DefaultInboxes
  /\ rcptTo = ""
  /\ rcptRet = "none"

\* the clock; the timer of init fires when its hour has passed.  A tick is
\* half an hour and a Data call takes far less, so the clock moves between
\* the calls.
Tick ==
  /\ now < MaxTime
  /\ sweepTimer = "armed" => now < Hour
  /\ \A s \in Sessions : dpc[s] = "idle"
  /\ now' = now + 1
  /\ UNCHANGED <<SMTP_DISABLE_NOREPLY, SMTP_FORWARD_ADDRESS, emailDebounce,
                 sweepTimer, emailQueue, dpc, dmsg, nData, replyLog,
                 suppressLog, dataRet, overlapped>>
  /\ UNCHANGED notInbound

\* init: t := time.NewTimer(time.Hour); for range t.C { Range ... Delete }
\* A Timer sends on t.C once; afterwards the loop blocks for ever.
Sweep ==
  /\ sweepTimer = "armed"
  /\ now >= Hour
  /\ emailDebounce' = {e \in emailDebounce : ~(now > e.sent)}
  /\ sweepTimer' = "fired"
  /\ UNCHANGED <<SMTP_DISABLE_NOREPLY, SMTP_FORWARD_ADDRESS, now, emailQueue,
                 dpc, dmsg, nData, replyLog, suppressLog, dataRet, overlapped>>
  /\ UNCHANGED notInbound

\* dkim.Verify(bytes.NewReader(data)) of go-msgauth: one Verification for
\* each DKIM-Signature header of the message, its Err nil when that signature
\* is valid; the error result is for a message whose header cannot be read
DkimVerify(m) ==
  [verifications |->
     IF m.dkim \in {"valid", "invalid"}
       THEN <<[Err |-> IF m.dkim = "valid" THEN "nil" ELSE "invalid"]>>
       ELSE <<>>,
   err |-> IF m.dkim = "unreadable" THEN "unreadable" ELSE "nil"]

\* To.Address == SMTP_ADDRESS_DMARC
IsNoInbox(m) == FALSE
IsDmarc(m) == m.To = SMTP_ADDRESS_DMARC

\* SMTP_DISABLE_NOREPLY == ""
NoreplyRejected == SMTP_DISABLE_NOREPLY = ""

\* what Data returns before it touches emailDebounce or emailQueue, or
\* "go on" (lines 58-102 and 126-128)
DataEarlyReturn(m) ==
  IF ~m.parsed THEN "ErrDataReset"
  ELSE IF DkimVerify(m).err # "nil" THEN "ErrDataReset"
  ELSE IF IsDmarc(m) THEN "nil"
  ELSE IF m.To = SMTP_ADDRESS_NOREPLY
    THEN IF NoreplyRejected THEN "ErrUnknownRecipient" ELSE "go on"
  ELSE IF SMTP_FORWARD_ADDRESS = "" THEN "ErrUnknownRecipient" ELSE "go on"

\* Session.Data up to its first access to shared state; the call is made on
\* the first session that has no call in progress
DataBegin(s, m) ==
  /\ dpc[s] = "idle"
  /\ \A o \in Sessions : dpc[o] = "idle" => s <= o
  /\ nData < MaxData
  /\ nData' = nData + 1
  /\ LET r == DataEarlyReturn(m) IN
       IF r # "go on"
         THEN /\ dataRet' = [dataRet EXCEPT ![s] = r]
              /\ dmsg' = [dmsg EXCEPT ![s] = m @@ [at |-> now]]
              /\ UNCHANGED <<dpc, overlapped>>
         ELSE /\ dpc' = [dpc EXCEPT ![s] = IF m.To = SMTP_ADDRESS_NOREPLY
                                           THEN "load" ELSE "forward"]
              /\ dmsg' = [dmsg EXCEPT ![s] = m @@ [at |-> now]]
              /\ dataRet' = [dataRet EXCEPT ![s] = "none"]
              /\ overlapped' = (overlapped \/ \E o \in Sessions : dpc[o] # "idle")
  /\ UNCHANGED <<SMTP_DISABLE_NOREPLY, SMTP_FORWARD_ADDRESS, now, emailDebounce,
                 sweepTimer, emailQueue, replyLog, suppressLog>>
  /\ UNCHANGED notInbound

\* if _, ok := emailDebounce.Load(From.Address); ok { return nil }
DataLoad(s) ==
  /\ dpc[s] = "load"
  /\ IF DebounceLoad(dmsg[s].From)
       THEN /\ suppressLog' = suppressLog \cup
                 {[sender |-> dmsg[s].From, at |-> dmsg[s].at,
                   sent |-> DebounceValue(dmsg[s].From)]}
            /\ dataRet' = [dataRet EXCEPT ![s] = "nil"]
            /\ dpc' = [dpc EXCEPT ![s] = "idle"]
       ELSE /\ dpc' = [dpc EXCEPT ![s] = "store"]
            /\ UNCHANGED <<suppressLog, dataRet>>
  /\ UNCHANGED <<SMTP_DISABLE_NOREPLY, SMTP_FORWARD_ADDRESS, now, emailDebounce,
                 sweepTimer, emailQueue, dmsg, nData, replyLog, overlapped>>
  /\ UNCHANGED notInbound

\* emailDebounce.Store(From.Address, time.Now().Add(time.Hour))
DataStore(s) ==
  /\ dpc[s] = "store"
  /\ emailDebounce' = DebounceStore(dmsg[s].From, now + Hour)
  /\ dpc' = [dpc EXCEPT ![s] = "reply"]
  /\ UNCHANGED <<SMTP_DISABLE_NOREPLY, SMTP_FORWARD_ADDRESS, now, sweepTimer,
                 emailQueue, dmsg, nData, replyLog, suppressLog, dataRet,
                 overlapped>>
  /\ UNCHANGED notInbound

\* QueueEmail of package env: select { case emailQueue <- e: default: log }
LegacyQueueEmail(q, e) == IF Len(q) < LegacyCap THEN Append(q, e) ELSE q

\* QueueEmail(auto-reply) or QueueEmail(forward); return nil
DataQueue(s) ==
  /\ dpc[s] \in {"reply", "forward"}
  /\ LET e == IF dpc[s] = "reply" THEN NoreplyEmail(dmsg[s])
              ELSE ForwardEmail(dmsg[s]) IN
       /\ emailQueue' = LegacyQueueEmail(emailQueue, e)
       /\ replyLog' = IF dpc[s] = "reply" /\ emailQueue' # emailQueue
                        THEN Append(replyLog, [sender |-> dmsg[s].From,
                                               at |-> dmsg[s].at])
                        ELSE replyLog
  /\ dataRet' = [dataRet EXCEPT ![s] = "nil"]
  /\ dpc' = [dpc EXCEPT ![s] = "idle"]
  /\ UNCHANGED <<SMTP_DISABLE_NOREPLY, SMTP_FORWARD_ADDRESS, now, emailDebounce,
                 sweepTimer, dmsg, nData, suppressLog, overlapped>>
  /\ UNCHANGED notInbound

\* a worker of StartupWorkers: for e := range emailQueue { SendEmail(e) }
LegacyWorker ==
  /\ emailQueue # <<>>
  /\ emailQueue' = Tail(emailQueue)
  /\ UNCHANGED <<SMTP_DISABLE_NOREPLY, SMTP_FORWARD_ADDRESS, now, emailDebounce,
                 sweepTimer, dpc, dmsg, nData, replyLog, suppressLog, dataRet,
                 overlapped>>
  /\ UNCHANGED notInbound

NextInbound ==
  \/ Tick
  \/ Sweep
  \/ \E s \in Sessions, m \in InboundMessages : DataBegin(s, m)
  \/ \E s \in Sessions : DataLoad(s)
  \/ \E s \in Sessions : DataStore(s)
  \/ \E s \in Sessions : DataQueue(s)
  \/ LegacyWorker

(***************************************************************************)
(* The legacy env.SendEmail (src/unnamed/part_002, lines 99-176)           *)
(***************************************************************************)
\* addresses as sequences of characters; " " is a character a URL's host
\* cannot hold
LegacyAddresses ==
  {<<"u", "@", "d">>, <<"u", "d">>, <<"u", "@">>, <<"u", "@", "d", " ">>,
   <<"u", "@", "v", "@", "d">>}

\* the index of the last "@" of an address, 0 when it has none
LastAt(a) ==
  IF \E k \in 1..Len(a) : a[k] = "@"
    THEN CHOOSE k \in 1..Len(a) : a[k] = "@" /\ \A j \in (k + 1)..Len(a) : a[j] # "@"
    ELSE 0

\* url.Parse("email://" + address): the address is the authority of the
\* URL; the parse fails on a character that neither userinfo nor host may
\* hold, and an address without "@" is an authority that is all host
UrlParseFails(a) == \E k \in 1..Len(a) : a[k] = " "

\* addr.Hostname(): what follows the last "@" of the authority
UrlHostname(a) == SubSeq(a, LastAt(a) + 1, Len(a))

\* lines 137-142: the error of url.Parse is the only rejection
LegacyMalformed(a) == UrlParseFails(a)

\* the cap of line 157
LegacyMaxMX == 3

LegacyReturn(err) ==
  /\ lsResult' = err
  /\ lsPc' = "returned"

InitLegacySend ==
  /\ lsTo \in LegacyAddresses
  /\ lsPc = "build"
  /\ lsEnvelope = <<>>
  /\ lsHost = <<>>
  /\ lsLookups = <<>>
  /\ lsRecords = <<>>
  /\ lsI = 0
  /\ lsAttempts = <<>>
  /\ lsResult = "none"

\* the legacy SendEmail is not run
LegacyIdle ==
  /\ lsTo = <<>>
  /\ lsPc = "idle"
  /\ lsEnvelope = <<>>
  /\ lsHost = <<>>
  /\ lsLookups = <<>>
  /\ lsRecords = <<>>
  /\ lsI = 0
  /\ lsAttempts = <<>>
  /\ lsResult = "none"

\* lines 100-133: the message is built, encoded into output and signed into
\* envelope: dkim.Sign(&envelope, &output, options)
LegacyBuildAndSign ==
  /\ lsPc = "build"
  /\ \E r \in {"ok", "building error", "encoding error", "signing error"} :
       IF r = "ok"
         THEN /\ lsEnvelope' = DkimSign([to |-> lsTo])
              /\ lsPc' = "parse"
              /\ UNCHANGED lsResult
         ELSE /\ LegacyReturn(r)
              /\ UNCHANGED lsEnvelope
  /\ UNCHANGED <<lsTo, lsHost, lsLookups, lsRecords, lsI, lsAttempts>>
  /\ UNCHANGED notLegacy

\* lines 136-142: the host is taken from the address by url.Parse
LegacyParse ==
  /\ lsPc = "parse"
  /\ IF LegacyMalformed(lsTo)
       THEN /\ LegacyReturn("malformed email address")
            /\ UNCHANGED lsHost
       ELSE /\ lsHost' = UrlHostname(lsTo)
            /\ lsPc' = "lookup"
            /\ UNCHANGED lsResult
  /\ UNCHANGED <<lsTo, lsEnvelope, lsLookups, lsRecords, lsI, lsAttempts>>
  /\ UNCHANGED notLegacy

\* lines 143-159: net.LookupMX(host), the sort by Pref and the cap
LegacyLookup ==
  /\ lsPc = "lookup"
  /\ lsLookups' = Append(lsLookups, lsHost)
  /\ \E o \in LookupOutcomes :
       CASE o[1] = "notfound" ->
              /\ LegacyReturn("no mx records available")
              /\ UNCHANGED <<lsRecords, lsI>>
         [] o[1] = "error" ->
              /\ LegacyReturn("dns lookup failed")
              /\ UNCHANGED <<lsRecords, lsI>>
         [] OTHER ->
              /\ \E sorted \in SeqsUpTo(MXRecords, MaxMX) :
                   /\ IsSortedByPref(sorted, o[2])
                   /\ lsRecords' = IF Len(sorted) > LegacyMaxMX
                                     THEN SubSeq(sorted, 1, LegacyMaxMX)
                                     ELSE sorted
              /\ lsI' = 1
              /\ lsPc' = "attempt"
              /\ UNCHANGED lsResult
  /\ UNCHANGED <<lsTo, lsEnvelope, lsHost, lsAttempts>>
  /\ UNCHANGED notLegacy

\* lines 162-175, one iteration of the loop over mxRecords, or its end
LegacyAttempt ==
  /\ lsPc = "attempt"
  /\ IF lsI > Len(lsRecords)
       THEN /\ LegacyReturn("cannot send email")
            /\ UNCHANGED <<lsI, lsAttempts>>
       ELSE \E ok \in BOOLEAN :
              /\ lsAttempts' = Append(lsAttempts,
                   [host |-> lsRecords[lsI].Host, payload |-> lsEnvelope,
                    ok |-> ok])
              /\ IF ok
                   THEN /\ LegacyReturn("nil")
                        /\ UNCHANGED lsI
                   ELSE /\ lsI' = lsI + 1
                        /\ UNCHANGED <<lsPc, lsResult>>
  /\ UNCHANGED <<lsTo, lsEnvelope, lsHost, lsLookups, lsRecords>>
  /\ UNCHANGED notLegacy

NextLegacySend ==
  \/ LegacyBuildAndSign
  \/ LegacyParse
  \/ LegacyLookup
  \/ LegacyAttempt

(***************************************************************************)
(* The legacy HTTP ingress (src/main.go, lines 77-106): the handler of     *)
(* StartupHTTP, which hands a submission to QueueEmail of package env      *)
(***************************************************************************)
\* the requests a client can make: method, whether the Authorization header
\* is env.HTTP_PASSPHRASE, and what the body is
HttpRequests ==
  [method : {"POST", "GET"}, authorized : BOOLEAN,
   body : {"unreadable", "not json", "invalid", "valid"}]

\* the Email a valid body is unmarshalled to
HttpEmail ==
  [FromAddress |-> "noreply@d", ToAddress |-> "a@x", Subject |-> <<"hi">>,
   Attachments |-> <<>>]

\* the request gets as far as env.QueueEmail (lines 80-101)
HttpReachesQueue(req) ==
  req.method = "POST" /\ req.authorized /\ req.body = "valid"

\* the status code the client gets.  On a body that fails validation the
\* handler writes the error text first, which sends the header with 200, and
\* the WriteHeader(400) that follows has no effect.  After QueueEmail, which
\* returns nothing, the handler writes 201 whatever became of the message.
HttpStatus(req, queued) ==
  IF req.method # "POST" THEN 405
  ELSE IF ~req.authorized THEN 401
  ELSE IF req.body = "unreadable" THEN 417
  ELSE IF req.body = "not json" THEN 422
  ELSE IF req.body = "invalid" THEN 200
  ELSE 201

InitHttp == httpLog = <<>>

\* one request, from its arrival to the answer
HttpHandle(req) ==
  /\ Len(httpLog) < MaxRequests
  /\ emailQueue' = IF HttpReachesQueue(req)
                     THEN LegacyQueueEmail(emailQueue, HttpEmail)
                     ELSE emailQueue
  /\ httpLog' = Append(httpLog,
       [req |-> req,
        queued |-> emailQueue' # emailQueue,
        status |-> HttpStatus(req, emailQueue' # emailQueue)])
  /\ UNCHANGED <<SMTP_DISABLE_NOREPLY, SMTP_FORWARD_ADDRESS, now, emailDebounce,
                 sweepTimer, dpc, dmsg, nData, replyLog, suppressLog, dataRet,
                 overlapped>>
  /\ UNCHANGED notHttp

NextHttp ==
  \/ \E req \in HttpRequests : HttpHandle(req)
  \/ LegacyWorker

(***************************************************************************)
(* The legacy main (src/main.go): the three Startup goroutines, the        *)
(* shutdown signal, the one-minute deadline and the exit of the process.   *)
(***************************************************************************)
\* StartupHTTP, StartupSMTP, env.StartupWorkers
Services == {"http", "smtp", "workers"}

\* main after its three go statements (lines 24-26), waiting for the signal
InitMain ==
  /\ mainPc = "signal"
  /\ stopCtx = FALSE
  /\ stopWg = 0
  /\ svc = [g \in Services |-> "new"]
  /\ timeoutCtx = "none"
  /\ watchdog = "none"
  /\ exitStatus = "running"
  /\ drainedAtDeadline = FALSE

\* a Startup function reaches await.Add(1) and starts its drain goroutine
\* (main.go lines 59-60 and 120-121, part_002 lines 80-81)
StartupRegister(g) ==
  /\ exitStatus = "running"
  /\ svc[g] = "new"
  /\ stopWg' = stopWg + 1
  /\ svc' = [svc EXCEPT ![g] = "waiting"]
  /\ UNCHANGED <<mainPc, stopCtx, timeoutCtx, watchdog, exitStatus,
                 drainedAtDeadline>>
  /\ UNCHANGED notMain

\* <-stop.Done() returns in a drain goroutine
DrainWake(g) ==
  /\ exitStatus = "running"
  /\ svc[g] = "waiting"
  /\ stopCtx
  /\ svc' = [svc EXCEPT ![g] = "draining"]
  /\ UNCHANGED <<mainPc, stopCtx, stopWg, timeoutCtx, watchdog, exitStatus,
                 drainedAtDeadline>>
  /\ UNCHANGED notMain

\* svr.Shutdown, or close(emailQueue) and activeWorkers.Wait(), returns and
\* the deferred await.Done() runs
DrainDone(g) ==
  /\ exitStatus = "running"
  /\ svc[g] = "draining"
  /\ svc' = [svc EXCEPT ![g] = "done"]
  /\ stopWg' = stopWg - 1
  /\ UNCHANGED <<mainPc, stopCtx, timeoutCtx, watchdog, exitStatus,
                 drainedAtDeadline>>
  /\ UNCHANGED notMain

\* lines 31-32: the signal arrives and main calls stop()
MainSignal ==
  /\ exitStatus = "running"
  /\ mainPc = "signal"
  /\ stopCtx' = TRUE
  /\ mainPc' = "arm"
  /\ UNCHANGED <<stopWg, svc, timeoutCtx, watchdog, exitStatus,
                 drainedAtDeadline>>
  /\ UNCHANGED notMain

\* lines 35-42: the one-minute context and the goroutine that waits for it
MainArm ==
  /\ exitStatus = "running"
  /\ mainPc = "arm"
  /\ timeoutCtx' = "armed"
  /\ watchdog' = "waiting"
  /\ mainPc' = "wait"
  /\ UNCHANGED <<stopCtx, stopWg, svc, exitStatus, drainedAtDeadline>>
  /\ UNCHANGED notMain

\* line 43: stopWg.Wait() returns when the counter is zero
MainWait ==
  /\ exitStatus = "running"
  /\ mainPc = "wait"
  /\ stopWg = 0
  /\ mainPc' = "exit"
  /\ UNCHANGED <<stopCtx, stopWg, svc, timeoutCtx, watchdog, exitStatus,
                 drainedAtDeadline>>
  /\ UNCHANGED notMain

\* lines 44-45: log.Println and os.Exit(0); the deferred finish() never runs
MainExit ==
  /\ exitStatus = "running"
  /\ mainPc = "exit"
  /\ exitStatus' = "0"
  /\ mainPc' = "exited"
  /\ UNCHANGED <<stopCtx, stopWg, svc, timeoutCtx, watchdog,
                 drainedAtDeadline>>
  /\ UNCHANGED notMain

\* the minute of context.WithTimeout has passed
DeadlineExpire ==
  /\ exitStatus = "running"
  /\ timeoutCtx = "armed"
  /\ timeoutCtx' = "expired"
  /\ drainedAtDeadline' = \A g \in Services : svc[g] = "done"
  /\ UNCHANGED <<mainPc, stopCtx, stopWg, svc, watchdog, exitStatus>>
  /\ UNCHANGED notMain

\* lines 38-41: <-timeout.Done() returns, the error is DeadlineExceeded and
\* log.Fatalln ends the process
WatchdogFatal ==
  /\ exitStatus = "running"
  /\ watchdog = "waiting"
  /\ timeoutCtx = "expired"
  /\ watchdog' = "fatal"
  /\ exitStatus' = "fatal"
  /\ UNCHANGED <<mainPc, stopCtx, stopWg, svc, timeoutCtx, drainedAtDeadline>>
  /\ UNCHANGED notMain

NextMain ==
  \/ \E g \in Services : StartupRegister(g)
  \/ \E g \in Services : DrainWake(g)
  \/ \E g \in Services : DrainDone(g)
  \/ MainSignal
  \/ MainArm
  \/ MainWait
  \/ MainExit
  \/ DeadlineExpire
  \/ WatchdogFatal

\* C22: the fatal exit is taken only when the drains had not all finished at
\* the deadline, and once the deadline has expired on unfinished drains the
\* goroutine that makes the fatal exit is there to make it; when the drains
\* finished first the process exits with status 0.
C22_DeadlineFatalElseZero ==
  /\ exitStatus = "fatal" => timeoutCtx = "expired" /\ ~drainedAtDeadline
  /\ (timeoutCtx = "expired" /\ ~drainedAtDeadline /\ exitStatus = "running")
       => watchdog = "waiting"
  /\ exitStatus = "0" => mainPc = "exited"

\* C32: whenever the shutdown signal arrives relative to the three Startup
\* goroutines, stopWg.Wait returns only after all three drain goroutines
\* have finished: once main is past the wait, and when the process exits
\* with status 0, every service has been drained
C32_WaitCoversAllDrains ==
  /\ mainPc \in {"exit", "exited"} => \A g \in Services : svc[g] = "done"
  /\ exitStatus = "0" => \A g \in Services : svc[g] = "done"

\* C32, the part that holds: a drain that registered before main reached
\* the wait has finished when the wait returns
C32_WaitCoversRegisteredDrains ==
  [][(mainPc = "wait" /\ mainPc' = "exit") =>
       \A g \in Services : svc[g] \in {"new", "done"}]_vars

(***************************************************************************)
(* Claims about the Engine                                                 *)
(***************************************************************************)
\* C2: a call of QueueEmail made while the queue holds QueueCap messages
\* returns false and leaves the queue as it was, and the queue never holds
\* more than QueueCap messages.
C2_FullQueueRejects ==
  /\ [][(nextId' # nextId /\ Len(outgoingQueue) = QueueCap)
          => (qlog'[nextId] = "false" /\ outgoingQueue' = outgoingQueue)]_vars
  /\ [](Len(outgoingQueue) <= QueueCap)

\* C5: two concurrent calls of Shutdown run one drain sequence (one start of
\* the drains, one close of the queue, one Shutdown per listener), and a call
\* has returned only if that one sequence has completed.
C5_ShutdownOnce ==
  /\ drainRuns <= 1
  /\ closeCount <= 1
  /\ \A l \in Listeners : shutCalls[l] <= 1
  /\ \A c \in Callers :
       Returned(c) => /\ activeClosing = "done"
                      /\ \A d \in Drains : drain[d] = "done"
                      /\ drainRuns = 1

\* the second call was made while the first was draining, was blocked, and
\* returned after the first; one drain sequence ran on the started engine
C5_Witness ==
  \E c1, c2 \in Callers :
    /\ spc[c1] = "returned"
    /\ spc[c2] = "released"
    /\ drainRuns = 1
    /\ closeCount = 1
    /\ \A l \in Listeners : shutCalls[l] = 1
    /\ \A w \in Workers : wpc[w] = "done"

\* C6: Shutdown has returned only if the HTTP and the SMTP listener's
\* Shutdown have returned, the queue is closed and no worker is alive; and
\* the three drains are started together, none after another has finished.
C6_ShutdownWaitsForAll ==
  /\ \A c \in Callers :
       Returned(c) => /\ \A d \in Drains : drain[d] = "done"
                      /\ queueClosed
                      /\ \A w \in Workers : wpc[w] \in {"off", "done"}
  /\ (\E d \in Drains : drain[d] # "none") => (\A d \in Drains : drain[d] # "none")

C8_QueueEmailNeverPanics ==
  \A m \in MsgIds : qlog[m] \in {"none", "true", "false"}

\* C21: when Start returns, it returns the listen error of a listener that
\* has reported one, whatever the other listener has reported and in which
\* order; it returns nil only when no listener has reported a failure.
C21_StartSurfacesListenError ==
  [][(startPc = "wait" /\ startPc' = "returned") =>
       (startRet' = "listen error" <=>
          \E k \in 1..Len(listenErr) : listenErr[k][2] = "listen error")]_vars

\* C18: an error SendEmail returns is passed to HandlerError once, and the
\* worker goes on with the queue: a worker ends only when the queue is
\* closed and empty, so until then every worker Start has started is alive.
C18_ErrorHandledWorkerContinues ==
  /\ \A m \in MsgIds : handled[m] = IF sendRes[m] = "err" THEN 1 ELSE 0
  /\ \A w \in Workers : wpc[w] = "done" => queueClosed /\ outgoingQueue = <<>>
  /\ ~(queueClosed /\ outgoingQueue = <<>>) =>
       Cardinality({w \in Workers : wpc[w] \in {"idle", "sending"}})
         = Cardinality({w \in Workers : wpc[w] # "off"})

\* the only worker started so far got an error for one message and is
\* sending the next one
C18_Witness ==
  /\ ~crashed
  /\ \E w \in Workers :
       /\ wpc[w] = "sending"
       /\ \A o \in Workers \ {w} : wpc[o] = "off"
       /\ \E m \in MsgIds \ {wmsg[w]} : sendRes[m] = "err" /\ handled[m] = 1

\* C31: Shutdown is safe at any time after New: called before Start has
\* run, or while Start is still assigning the HTTP and SMTP servers, it
\* never calls Shutdown on a server that is not assigned yet
C31_ShutdownNeverDerefsUnsetServer ==
  [][\A l \in Listeners : DrainServerStart(l) => server[l] # "nil"]_vars

\* C31, the part that holds: whenever Shutdown is called, its queue drain
\* closes the queue exactly once, never a closed one
C31_ShutdownClosesQueueOnce ==
  /\ closeCount <= 1
  /\ drain["queue"] \in {"draining", "done"} => queueClosed /\ closeCount = 1

\* every worker that was started has left its range loop
WorkersTerminated == \A w \in Workers : wpc[w] \in {"off", "done"}

\* C24: once Shutdown has closed the outbound queue, every worker eventually
\* terminates, and it does so after the messages already enqueued have been
\* processed (a worker that has terminated leaves no message in the queue),
\* the goroutines of the workers being scheduled fairly
C24_WorkersTerminateAfterClose ==
  /\ queueClosed ~> WorkersTerminated
  /\ []((\E w \in Workers : wpc[w] = "done") => outgoingQueue = <<>>)

\* C24, as far as it holds: once the queue is closed every worker eventually
\* terminates, unless a panic inside SendEmail has ended the process
C24_WorkersTerminateUnlessCrashed ==
  /\ queueClosed ~> (crashed \/ WorkersTerminated)
  /\ []((\E w \in Workers : wpc[w] = "done") => outgoingQueue = <<>>)

\* C24, the second half, which holds: a call of SendEmail that has begun
\* returns, after at most AttemptTotal attempts for the one addressee it
\* gets to
C24_SendEmailTerminates ==
  /\ (sePc # "start") ~> (sePc = "returned")
  /\ [](Len(attempts) <= AttemptTotal(OutgoingTimeout))

(***************************************************************************)
(* Claims about Engine.SendEmail                                           *)
(***************************************************************************)
\* C1: when SendEmail has returned after the handoff for an addressee
\* succeeded or failed, every addressee of the Message has had an envelope
\* built and at least one handoff attempt.
C1_EveryRecipientDelivered ==
  (sePc = "returned" /\ seResult \in {"nil", "email delivery failed"}) =>
     \A r \in 1..Len(email.To) :
        /\ r \in built
        /\ \E k \in 1..Len(attempts) : attempts[k].rcpt = r

\* C9: when every handoff attempt for the addressee has failed, there were
\* exactly max(1, floor(timeout / 10 s)) attempts, attempt i (from 0) went to
\* candidate i mod len(candidates); a timeout of 30 s gives 3 attempts.
C9_AttemptBudgetAndWraparound ==
  seResult = "email delivery failed" =>
     /\ Len(attempts) = Max(1, OutgoingTimeout \div 10000)
     /\ OutgoingTimeout = 30000 => Len(attempts) = 3
     /\ \A k \in 1..Len(attempts) :
          /\ ~attempts[k].ok
          /\ attempts[k].host = records[((k - 1) % Len(records)) + 1].Host

\* three failed attempts under a timeout of 30 s with two candidates of
\* different hosts: the third attempt went back to the first candidate
C9_Witness ==
  /\ seResult = "email delivery failed"
  /\ OutgoingTimeout = 30000
  /\ Len(records) = 2
  /\ records[1].Host # records[2].Host
  /\ Len(attempts) = 3
  /\ attempts[3].host = records[1].Host
  /\ attempts[2].host = records[2].Host

\* C10: attempts for the addressee are made one after the other, numbered
\* 0, 1, 2, ..., and a successful attempt is the last one: SendEmail has
\* returned nil and no attempt follows it.
C10_SuccessEndsAttempts ==
  \A k \in 1..Len(attempts) :
     /\ attempts[k].i = k - 1
     /\ attempts[k].rcpt = attempts[1].rcpt
     /\ attempts[k].ok => (k = Len(attempts) /\ sePc = "returned" /\ seResult = "nil")

\* the second of three possible attempts succeeded, with a second candidate
\* and a third attempt left untried
C10_Witness ==
  /\ OutgoingTimeout = 30000
  /\ Len(attempts) = 2
  /\ ~attempts[1].ok
  /\ attempts[2].ok
  /\ seResult = "nil"
  /\ sePc = "returned"

\* C19: with signing enabled, a signing failure makes SendEmail return
\* before any MX lookup or handoff, and every payload handed off is the
\* signer's output for the envelope built; with signing disabled the payload
\* handed off is the envelope built, unchanged.
C19_NeverHandedOffUnsigned ==
  /\ seResult = "unable to sign envelope" =>
       /\ OutgoingDKIMEnabled
       /\ lookups = <<>>
       /\ attempts = <<>>
  /\ \A k \in 1..Len(attempts) :
       attempts[k].payload =
         IF OutgoingDKIMEnabled
           THEN DkimSign(BuildEnvelope(email, attempts[k].rcpt))
           ELSE BuildEnvelope(email, attempts[k].rcpt)

\* signing failed after the envelope had been built
C19_Witness ==
  /\ OutgoingDKIMEnabled
  /\ sePc = "returned"
  /\ seResult = "unable to sign envelope"
  /\ built # {}

\* C26: with signing enabled, the signer takes the built envelope as its
\* input, and the bytes handed to the network are the signer's output for
\* that envelope: never empty, never the unsigned envelope
C26_SignerReadsEnvelope ==
  /\ \A k \in 1..Len(signIn) : signIn[k] = BuildEnvelope(email, rcpt)
  /\ OutgoingDKIMEnabled =>
       \A k \in 1..Len(attempts) :
         /\ attempts[k].payload # <<>>
         /\ attempts[k].payload # BuildEnvelope(email, attempts[k].rcpt)
         /\ attempts[k].payload = DkimSign(BuildEnvelope(email, attempts[k].rcpt))

\* C26, what the code does instead: with signing enabled the signer is given
\* an empty input, so that SendEmail never gets to an MX lookup or a handoff
C26_SigningEnabledNeverDelivers ==
  OutgoingDKIMEnabled =>
    /\ \A k \in 1..Len(signIn) : signIn[k] = <<>>
    /\ lookups = <<>>
    /\ attempts = <<>>
    /\ seResult \in {"none", "no recipients", "cancelled by middleware",
                     "unable to build envelope", "unable to sign envelope"}

\* C33: the candidate index i mod len(records) is evaluated only when the
\* candidate list is not empty: a lookup that returns no error and no
\* records never reaches the attempt loop, and SendEmail never panics
C33_NoAttemptOnEmptyRecords ==
  /\ sePc = "attempt" => records # <<>>
  /\ seResult # "panic"

\* C33, what does hold: the index is within the list whenever the list is
\* not empty, and only an empty list makes SendEmail panic
C33_PanicOnlyOnEmptyRecords ==
  /\ (sePc = "attempt" /\ records # <<>>) =>
       CandidateIndex(attemptI, Len(records)) \in 1..Len(records)
  /\ seResult = "panic" => (mxAnswer = <<>> /\ attempts = <<>>)

\* an address without "@", or with nothing after its first "@"
NoDomain(a) ==
  \A k \in 1..Len(a) :
    a[k] = "@" => (k = Len(a) /\ \A j \in 1..(k - 1) : a[j] # "@")

FirstCancel ==
  IF \E k \in 1..Len(outgoingMiddleware) : ~outgoingMiddleware[k].proceed
    THEN CHOOSE k \in 1..Len(outgoingMiddleware) :
           /\ ~outgoingMiddleware[k].proceed
           /\ \A j \in 1..(k - 1) : outgoingMiddleware[j].proceed
    ELSE 0

\* C17: the middleware run in the order of their registration; when one of
\* them cancels, none after it runs, no envelope is built, no MX lookup and
\* no handoff is made, SendEmail returns the cancellation, and the message
\* is not put on the queue again.
C17_FirstCancelStopsChain ==
  /\ mwLog = SubSeq(outgoingMiddleware, 1, Len(mwLog))
  /\ (FirstCancel # 0 /\ Len(email.To) > 0) =>
       /\ Len(mwLog) <= FirstCancel
       /\ built = {}
       /\ lookups = <<>>
       /\ attempts = <<>>
       /\ outgoingQueue = <<>>
       /\ sePc = "returned" =>
            /\ seResult = "cancelled by middleware"
            /\ Len(mwLog) = FirstCancel

\* the first of two registered handlers cancelled
C17_Witness ==
  /\ sePc = "returned"
  /\ seResult = "cancelled by middleware"
  /\ Len(outgoingMiddleware) = 2
  /\ FirstCancel = 1
  /\ mwLog = <<outgoingMiddleware[1]>>
  /\ outgoingMiddleware[1] # outgoingMiddleware[2]

\* the records of a lookup's answer in ascending Pref, records of equal Pref
\* in the order of the answer: r is put behind every record whose Pref is
\* not greater
InsertByPref(sorted, r) ==
  LET k == Cardinality({a \in 1..Len(sorted) : sorted[a].Pref <= r.Pref})
  IN  SubSeq(sorted, 1, k) \o <<r>> \o SubSeq(sorted, k + 1, Len(sorted))

RECURSIVE StableByPref(_)
StableByPref(in) ==
  IF Len(in) = 0 THEN <<>>
  ELSE InsertByPref(StableByPref(SubSeq(in, 1, Len(in) - 1)), in[Len(in)])

C23_TriedInAscendingPref ==
  /\ \A a \in 1..(Len(records) - 1) : records[a].Pref <= records[a + 1].Pref
  /\ \A k \in 1..Len(attempts) :
       attempts[k].rcpt = rcpt =>
         attempts[k].host = records[CandidateIndex(attempts[k].i, Len(records))].Host

(***************************************************************************)
(* Claims about the legacy env.SendEmail and the legacy HTTP ingress       *)
(***************************************************************************)
\* C27: the legacy SendEmail rejects an address that has no "@", or nothing
\* after it, with the malformed-address error before any MX lookup: for
\* such an address no lookup and no handoff is ever made, and a call that
\* got as far as the address returns that error
C27_LegacyMalformedRejected ==
  NoDomain(lsTo) =>
    /\ lsLookups = <<>>
    /\ lsAttempts = <<>>
    /\ lsPc = "returned" =>
         lsResult \in {"building error", "encoding error", "signing error",
                       "malformed email address"}

\* C30: the handler answers 201 Created only if the message was placed on
\* the outbound queue; a submission dropped because the queue is full is
\* not reported as created
C30_CreatedOnlyIfQueued ==
  \A k \in 1..Len(httpLog) : httpLog[k].status = 201 => httpLog[k].queued

\* C30, what does hold: 201 is the answer to valid, authorized submissions
\* only, and a submission that was queued is answered with 201
C30_CreatedOnlyIfValid ==
  \A k \in 1..Len(httpLog) :
    /\ httpLog[k].status = 201 => HttpReachesQueue(httpLog[k].req)
    /\ httpLog[k].queued => httpLog[k].status = 201

\* C27, what does hold: an address url.Parse cannot parse is rejected with
\* the malformed-address error before any MX lookup
C27_LegacyUnparsableRejected ==
  UrlParseFails(lsTo) =>
    /\ lsLookups = <<>>
    /\ lsAttempts = <<>>
    /\ lsPc = "returned" =>
         lsResult \in {"building error", "encoding error", "signing error",
                       "malformed email address"}

(***************************************************************************)
(* Claims about the inbound Session                                        *)
(***************************************************************************)
\* the auto-replies enqueued for sender a whose trigger arrived in the
\* cooldown window that opens at time t
RepliesInWindow(a, t) ==
  {i \in 1..Len(replyLog) :
     /\ replyLog[i].sender = a
     /\ replyLog[i].at >= t
     /\ replyLog[i].at < t + Hour}

\* C3: when the no-reply triggers of a sender are handled one after the
\* other, the triggers inside one cooldown window enqueue one auto-reply in
\* all, and a trigger is answered by the debounce entry only while that
\* entry's hour is running: a trigger that arrives after the hour has passed
\* enqueues the next auto-reply.
C3_SecondReplyAfterCooldown ==
  ~overlapped =>
    /\ \A i \in 1..Len(replyLog) :
         Cardinality(RepliesInWindow(replyLog[i].sender, replyLog[i].at)) = 1
    /\ \A x \in suppressLog : x.at <= x.sent

\* C4: however the Load and Store of concurrent sessions interleave, at most
\* two auto-replies are enqueued for one sender inside one cooldown window.
C4_AtMostOneDuplicate ==
  \A i \in 1..Len(replyLog) :
    Cardinality(RepliesInWindow(replyLog[i].sender, replyLog[i].at)) <= 2

\* C12: a Data call on a message that parses but whose domain signature
\* does not verify (absent, invalid or not verifiable) returns the
\* data-reset error at once and enqueues nothing and writes no debounce entry.
C12_DkimFailureResets ==
  [][\A s \in Sessions, m \in InboundMessages :
       (DataBegin(s, m) /\ m.parsed /\ m.dkim # "valid") =>
         /\ dataRet'[s] = "ErrDataReset"
         /\ dpc'[s] = "idle"
         /\ UNCHANGED <<emailQueue, emailDebounce, replyLog>>]_vars

\* C13: a Data call on a valid message addressed to the no-reply address
\* returns the unknown-recipient error and enqueues nothing when
\* SMTP_DISABLE_NOREPLY is set to a non-empty value, and does not return that
\* error when it is empty.
C13_DisableFlagRejects ==
  [][\A s \in Sessions, m \in InboundMessages :
       (/\ DataBegin(s, m)
        /\ m.parsed
        /\ m.dkim = "valid"
        /\ m.To = SMTP_ADDRESS_NOREPLY
        /\ m.To # SMTP_ADDRESS_DMARC) =>
         IF SMTP_DISABLE_NOREPLY # ""
           THEN /\ dataRet'[s] = "ErrUnknownRecipient"
                /\ dpc'[s] = "idle"
                /\ UNCHANGED <<emailQueue, emailDebounce, replyLog>>
           ELSE dataRet'[s] # "ErrUnknownRecipient"]_vars

\* C14: a Data call on a valid message addressed to the no-reply address,
\* with auto-reply enabled (SMTP_DISABLE_NOREPLY empty), the sender without
\* debounce entry and room in the queue, is not rejected but goes on to the
\* debounce map; the entry it stores expires one hour later; and what it
\* enqueues is one auto-reply from the no-reply address to the sender, with
\* subject "Need Help?" and one attachment, which is inline.
C14_AutoReplyEnqueued ==
  [][\A s \in Sessions :
       /\ \A m \in InboundMessages :
            (/\ DataBegin(s, m)
             /\ m.parsed
             /\ m.dkim = "valid"
             /\ m.To = SMTP_ADDRESS_NOREPLY
             /\ m.To # SMTP_ADDRESS_DMARC
             /\ SMTP_DISABLE_NOREPLY = ""
             /\ ~DebounceLoad(m.From)
             /\ Len(emailQueue) < LegacyCap) => dpc'[s] = "load"
       /\ DataStore(s) =>
            [key |-> dmsg[s].From, sent |-> now + Hour] \in emailDebounce'
       /\ (DataQueue(s) /\ dpc[s] = "reply" /\ Len(emailQueue) < LegacyCap) =>
            /\ Len(emailQueue') = Len(emailQueue) + 1
            /\ LET e == emailQueue'[Len(emailQueue')] IN
                 /\ e.FromAddress = SMTP_ADDRESS_NOREPLY
                 /\ e.ToAddress = dmsg[s].From
                 /\ e.Subject = <<"Need Help?">>
                 /\ Len(e.Attachments) = 1
                 /\ e.Attachments[1].Inline
            /\ DebounceLoad(dmsg[s].From)'
            /\ dataRet'[s] = "nil"]_vars

\* C15: a Data call on a message addressed to the DMARC address that parses
\* and passes the signature check returns nil at once, enqueues nothing (no
\* auto-reply, no forward) and leaves the debounce map as it was.
C15_DmarcDropped ==
  [][\A s \in Sessions, m \in InboundMessages :
       (/\ DataBegin(s, m)
        /\ m.parsed
        /\ m.dkim = "valid"
        /\ m.To = SMTP_ADDRESS_DMARC) =>
         /\ dataRet'[s] = "nil"
         /\ dpc'[s] = "idle"
         /\ UNCHANGED <<emailQueue, emailDebounce, replyLog>>]_vars

\* a DMARC message was accepted while forwarding is configured
C15_Witness ==
  \E s \in Sessions :
    /\ dmsg[s].To = SMTP_ADDRESS_DMARC
    /\ dmsg[s].parsed
    /\ dmsg[s].dkim = "valid"
    /\ dpc[s] = "idle"
    /\ dataRet[s] = "nil"
    /\ SMTP_FORWARD_ADDRESS # ""

\* C16: a Data call on a valid message addressed to the forward address
\* returns the unknown-recipient error and enqueues nothing when no forward
\* destination is configured; otherwise it enqueues one Message, to the
\* forward destination, with the subject "Fwd: " + the original subject and
\* one attachment of type message/rfc822 that holds the original bytes.
C16_ForwardEnqueued ==
  [][\A s \in Sessions :
       /\ \A m \in InboundMessages :
            (/\ DataBegin(s, m)
             /\ m.parsed
             /\ m.dkim = "valid"
             /\ m.To = SMTP_ADDRESS_FORWARD
             /\ m.To \notin {SMTP_ADDRESS_DMARC, SMTP_ADDRESS_NOREPLY}) =>
              IF SMTP_FORWARD_ADDRESS = ""
                THEN /\ dataRet'[s] = "ErrUnknownRecipient"
                     /\ dpc'[s] = "idle"
                     /\ UNCHANGED <<emailQueue, emailDebounce, replyLog>>
                ELSE dpc'[s] = "forward"
       /\ (/\ DataQueue(s)
           /\ dpc[s] = "forward"
           /\ dmsg[s].To = SMTP_ADDRESS_FORWARD) =>
            /\ Len(emailQueue') = Len(emailQueue) + 1
            /\ LET e == emailQueue'[Len(emailQueue')] IN
                 /\ e.ToAddress = SMTP_FORWARD_ADDRESS
                 /\ e.Subject = <<"Fwd: ">> \o dmsg[s].Subject
                 /\ Len(e.Attachments) = 1
                 /\ e.Attachments[1].ContentType = "message/rfc822"
                 /\ e.Attachments[1].Data = RawBytes(dmsg[s])
            /\ dataRet'[s] = "nil"]_vars

\* C11: Session.Rcpt rejects a recipient with the unknown-recipient error
\* exactly when the recipient is none of the three configured inbox
\* addresses; a recipient equal to one of them is accepted.
C11_RcptAllowlist ==
  rcptRet # "none" =>
    (rcptRet = "ErrUnknownRecipient" <=>
       rcptTo \notin {SMTP_ADDRESS_DMARC, SMTP_ADDRESS_NOREPLY,
                      SMTP_ADDRESS_FORWARD})

\* C28: a suppression entry exists for a sender only if an auto-reply to
\* that sender was accepted by the outbound queue: every entry of the map
\* belongs to a sender with an accepted auto-reply, or to a Data call that
\* has stored the entry and is about to enqueue its auto-reply
C28_EntryOnlyIfReplyQueued ==
  \A e \in emailDebounce :
    \/ \E k \in 1..Len(replyLog) : replyLog[k].sender = e.key
    \/ \E s \in Sessions : dpc[s] = "reply" /\ dmsg[s].From = e.key

\* C28, the case with room in the queue, which holds: the Data call that
\* stored the entry gets its auto-reply accepted
C28_EntryAndReplyWithRoom ==
  [][\A s \in Sessions :
       (DataQueue(s) /\ dpc[s] = "reply" /\ Len(emailQueue) < LegacyCap) =>
         /\ DebounceLoad(dmsg[s].From)'
         /\ replyLog' = Append(replyLog, [sender |-> dmsg[s].From,
                                          at |-> dmsg[s].at])]_vars

\* C29: Data enqueues a forwarding Message only for a message addressed to
\* the forward address: a message whose To header is none of the DMARC,
\* no-reply and forward addresses is never forwarded
C29_ForwardOnlyForForwardAddress ==
  [][\A s \in Sessions :
       (DataQueue(s) /\ dpc[s] = "forward" /\ emailQueue' # emailQueue) =>
         dmsg[s].To = SMTP_ADDRESS_FORWARD]_vars

\* C29, what does hold: a message addressed to the DMARC or the no-reply
\* address is never forwarded
C29_NoForwardForOtherClasses ==
  [][\A s \in Sessions :
       (DataQueue(s) /\ dpc[s] = "forward") =>
         dmsg[s].To \notin {SMTP_ADDRESS_DMARC, SMTP_ADDRESS_NOREPLY}]_vars

\* C25: the sweep of the suppression map runs every hour for the whole life
\* of the process, so that every entry is removed after it has expired: an
\* entry whose expiry is past always has a run of the sweep still to come
C25_ExpiredEntrySwept ==
  \A e \in emailDebounce : now > e.sent => sweepTimer = "armed"

\* C25, the part that holds: a run of the sweep removes exactly the entries
\* whose expiry is past and keeps the others
C25_SweepRemovesExpiredOnly ==
  [][(sweepTimer = "armed" /\ sweepTimer' = "fired") =>
       emailDebounce' = {e \in emailDebounce : e.sent >= now}]_vars

(***************************************************************************)
(* Specifications                                                          *)
(***************************************************************************)
InboundIdle ==
  /\ SMTP_DISABLE_NOREPLY = ""
  /\ SMTP_FORWARD_ADDRESS = ""
  /\ now = 0
  /\ emailDebounce = {}
  /\ sweepTimer = "armed"
  /\ emailQueue = <<>>
  /\ dpc = [s \in Sessions |-> "idle"]
  /\ dmsg = [s \in Sessions |-> NoMessage]
  /\ nData = 0
  /\ replyLog = <<>>
  /\ suppressLog = {}
  /\ dataRet = [s \in Sessions |-> "none"]
  /\ overlapped = FALSE

\* the legacy main is not run
MainIdle ==
  /\ mainPc = "idle"
  /\ stopCtx = FALSE
  /\ stopWg = 0
  /\ svc = [g \in Services |-> "new"]
  /\ timeoutCtx = "none"
  /\ watchdog = "none"
  /\ exitStatus = "idle"
  /\ drainedAtDeadline = FALSE

\* no request has come in
HttpIdle == httpLog = <<>>

\* no Rcpt call made, the default inbox addresses
RcptIdle ==
  /\ DefaultInboxes
  /\ rcptTo = ""
  /\ rcptRet = "none"

\* the Engine, from New on
InitSpecEngine == InitEngine /\ SendIdle /\ InboundIdle /\ RcptIdle /\ MainIdle /\ LegacyIdle /\ HttpIdle
SpecEngine == InitSpecEngine /\ [][NextEngine]_vars

\* the Engine with its worker goroutines scheduled fairly: a worker that can
\* receive, finish its SendEmail call or leave its loop eventually does
FairSpecEngine ==
  /\ InitSpecEngine
  /\ [][NextEngine]_vars
  /\ \A w \in Workers :
       /\ WF_vars(WorkerRecv(w))
       /\ WF_vars(WorkerSend(w))
       /\ WF_vars(WorkerExit(w))

\* one call of Engine.SendEmail, for every Message and configuration
InitSpecSend == InitSend /\ InitEngine /\ InboundIdle /\ RcptIdle /\ MainIdle /\ LegacyIdle /\ HttpIdle
SpecSend == InitSpecSend /\ [][NextSend]_vars

\* a call of SendEmail that is running keeps running: each step of the
\* function is taken once it is reached
FairSpecSend ==
  /\ InitSpecSend
  /\ [][NextSend]_vars
  /\ WF_vars(RunMiddleware) /\ WF_vars(SendBuild) /\ WF_vars(SendSign)
  /\ WF_vars(SendResolve) /\ WF_vars(SendAttempt)

\* the inbound Session of package env, for every configuration
InitSpecInbound == InitInbound /\ InitEngine /\ SendIdle /\ MainIdle /\ LegacyIdle /\ HttpIdle
SpecInbound == InitSpecInbound /\ [][NextInbound]_vars

\* Session.Rcpt, for every configuration of the inbox addresses
InitSpecRcpt == InitRcpt /\ InitEngine /\ SendIdle /\ InboundIdle /\ MainIdle /\ LegacyIdle /\ HttpIdle
SpecRcpt == InitSpecRcpt /\ [][NextRcpt]_vars

\* the legacy main, from the start of the process to its exit
InitSpecMain == InitMain /\ InitEngine /\ SendIdle /\ InboundIdle /\ RcptIdle /\ LegacyIdle /\ HttpIdle
SpecMain == InitSpecMain /\ [][NextMain]_vars

\* one call of the legacy env.SendEmail, for every address
InitSpecLegacySend ==
  InitLegacySend /\ InitEngine /\ SendIdle /\ InboundIdle /\ RcptIdle /\ MainIdle /\ HttpIdle
SpecLegacySend == InitSpecLegacySend /\ [][NextLegacySend]_vars

\* the legacy HTTP ingress with the queue and the workers of package env
InitSpecHttp ==
  InitHttp /\ InitEngine /\ SendIdle /\ InboundIdle /\ RcptIdle /\ MainIdle /\ LegacyIdle
SpecHttp == InitSpecHttp /\ [][NextHttp]_vars

=============================================================================
